---- MODULE Spec2Model ----
(***************************************************************************)
(* Model of the analytics batch orchestrator                               *)
(* (app/scheduler/batch_processor.py) together with the two stores it      *)
(* works on: the transactional order store (read through order_db) and    *)
(* the analytics store (written through analytics_db).                     *)
(*                                                                         *)
(* Dates are day numbers, money is in cents, a table is the sequence of    *)
(* its rows in primary-key order (the autoincrement id of a row is its     *)
(* index).                                                                 *)
(***************************************************************************)
EXTENDS Integers, Sequences, FiniteSets, TLC

VARIABLES
    today,          \* date.today()
    orders,         \* the "orders" table of the order store
    placed,         \* orders placed since the process started
    db,             \* committed content of the analytics store
    batch_lock,     \* threading.Lock: 0 when free, else the thread that holds it
    is_running,     \* BatchProcessor.is_running, per instance
    commits,        \* the day of each commit so far
    pc,             \* per thread: position inside run_batch_job
    self,           \* per thread: the BatchProcessor instance the call is on
    order_db,       \* per thread: the read-only session object
    analytics_db,   \* per thread: the read-write session object
    locals,         \* per thread: local variables of the pipeline steps
    exc,            \* per thread: the exception that is propagating
    trace,          \* per thread: what the current (or last) call did, in order
    before,         \* per thread: db as it was when the run acquired the lock
    svc,            \* the last call of a ForecastingService or scheduler entry
                    \* point made outside a run: its name, argument and result
    scheduler       \* self.scheduler of the service's processor, the
                    \* BackgroundScheduler objects made so far, and the calls
                    \* of start() and stop() so far

vars == <<today, orders, placed, db, batch_lock, is_running, commits, pc, self,
          order_db, analytics_db, locals, exc, trace, before, svc, scheduler>>

(***************************************************************************)
(* Bounds of the model.                                                    *)
(***************************************************************************)
NThreads == 2
NInstances == 2
MaxCommits == 2
MaxDay == 2
MaxOrders == 1

Threads == 1..NThreads
Instances == 1..NInstances

(***************************************************************************)
(* Program constants.                                                      *)
(***************************************************************************)
HoursPerDay == 24
ForecastDays == 7
history_days_daily == 30
history_days_hourly == 7

Hours == 0..(HoursPerDay - 1)

(***************************************************************************)
(* The order store.                                                        *)
(***************************************************************************)
OrderStatus == {"CREATED", "CONFIRMED", "PREPARING", "READY", "SERVED"}

\* The values the environment draws order fields from.
SampleHours == {0}
SampleAmounts == {250}
SampleStatus == {"CREATED", "SERVED"}

Order(d, h, s, a) ==
    [created_date |-> d, created_hour |-> h, status |-> s, total_amount |-> a]

\* The orders the store holds when the process starts.
InitialOrders ==
    << Order(0, 13, "SERVED", 1001), Order(0, 13, "CREATED", 250) >>

(***************************************************************************)
(* Sequence helpers.                                                       *)
(***************************************************************************)
RECURSIVE SumSeq(_)
SumSeq(s) == IF s = << >> THEN 0 ELSE Head(s) + SumSeq(Tail(s))

IsPrefix(s, t) == Len(s) <= Len(t) /\ SubSeq(t, 1, Len(s)) = s

Min(S) == CHOOSE x \in S : \A y \in S : x <= y

Range(s) == {s[i] : i \in DOMAIN s}

\* rows of tbl in increasing order of their date (ORDER BY date)
RECURSIVE OrderByDate(_)
OrderByDate(tbl) ==
    IF tbl = << >> THEN << >>
    ELSE LET k == Min({tbl[i].date : i \in DOMAIN tbl})
             i == Min({j \in DOMAIN tbl : tbl[j].date = k})
             rest == [j \in 1..(Len(tbl) - 1) |-> IF j < i THEN tbl[j] ELSE tbl[j + 1]]
         IN  <<tbl[i]>> \o OrderByDate(rest)

(***************************************************************************)
(* The analytics store: three tables (app/models/analytics.py).            *)
(***************************************************************************)
EmptyDb ==
    [daily_revenue_cache |-> << >>,
     hourly_order_cache  |-> << >>,
     forecast_history    |-> << >>]

DailyRevenueCache(d, total, n, avg) ==
    [date |-> d, total_revenue |-> total, order_count |-> n,
     average_order_value |-> avg]

HourlyOrderCache(d, h, n) == [date |-> d, hour |-> h, order_count |-> n]

ForecastHistory(type, d) == [forecast_type |-> type, forecast_date |-> d]

\* f'hourly_{hour:02d}'
Digit == <<"0", "1", "2", "3", "4", "5", "6", "7", "8", "9">>
HourlyType(hour) == "hourly_" \o Digit[(hour \div 10) + 1] \o Digit[(hour % 10) + 1]

\* unique=True on daily_revenue_cache.date
DailyUnique(tbl) ==
    \A i, j \in DOMAIN tbl : tbl[i].date = tbl[j].date => i = j

\* UniqueConstraint('date', 'hour') on hourly_order_cache
HourlyUnique(tbl) ==
    \A i, j \in DOMAIN tbl :
        (tbl[i].date = tbl[j].date /\ tbl[i].hour = tbl[j].hour) => i = j

(***************************************************************************)
(* A session: the objects added to it (new) and the loaded rows it has     *)
(* changed (dirty). With autoflush=False neither reaches the database      *)
(* before commit, and a query reads the database only.                     *)
(***************************************************************************)
NoSession == [state |-> "none", new |-> << >>, dirty |-> << >>]

\* sessionmaker(autocommit=False, autoflush=False, bind=...)()
SessionLocal == [state |-> "open", new |-> << >>, dirty |-> << >>]

\* Session.add(obj)
add(sess, tbl, row) ==
    [sess EXCEPT !.new = Append(@, [tbl |-> tbl, row |-> row])]

\* an attribute assignment on the loaded row number id of tbl
modify(sess, tbl, id, row) ==
    [sess EXCEPT !.dirty = Append(@, [tbl |-> tbl, id |-> id, row |-> row])]

\* Session.rollback(): pending changes are dropped
rollback(sess) == [sess EXCEPT !.new = << >>, !.dirty = << >>]

\* Session.close()
close(sess) == [state |-> "closed", new |-> << >>, dirty |-> << >>]

\* the table after the UPDATEs and INSERTs the flush of sess issues for it
FlushTable(rows, sess, tbl) ==
    LET upd(i) == {k \in DOMAIN sess.dirty :
                      sess.dirty[k].tbl = tbl /\ sess.dirty[k].id = i}
        updated == [i \in DOMAIN rows |->
                      IF upd(i) = {} THEN rows[i]
                      ELSE sess.dirty[CHOOSE k \in upd(i) : \A m \in upd(i) : m <= k].row]
        ins == SelectSeq(sess.new, LAMBDA n : n.tbl = tbl)
    IN  updated \o [k \in DOMAIN ins |-> ins[k].row]

Flush(store, sess) ==
    [daily_revenue_cache |->
        FlushTable(store.daily_revenue_cache, sess, "daily_revenue_cache"),
     hourly_order_cache |->
        FlushTable(store.hourly_order_cache, sess, "hourly_order_cache"),
     forecast_history |->
        FlushTable(store.forecast_history, sess, "forecast_history")]

\* the flush violates no unique constraint
FlushAccepted(store) ==
    /\ DailyUnique(store.daily_revenue_cache)
    /\ HourlyUnique(store.hourly_order_cache)

(***************************************************************************)
(* Aggregation step (_compute_daily_revenue, _compute_hourly_breakdown).   *)
(***************************************************************************)
\* the order records of date d
OnDate(rows, d) == SelectSeq(rows, LAMBDA o : o.created_date = d)

\* filter(status == SERVED, date(created_at) == target_date)
ServedOn(rows, target_date) ==
    SelectSeq(rows, LAMBDA o : o.status = "SERVED" /\ o.created_date = target_date)

\* total / count as it is stored in a Numeric(10, 2) column: to the nearest
\* cent, halves away from zero
DivideToCents(total, count) == ((2 * total) + count) \div (2 * count)

\* the values of the daily row for target_date
daily_entry(rows, target_date) ==
    LET served == ServedOn(rows, target_date)
        total_revenue == SumSeq([i \in DOMAIN served |-> served[i].total_amount])
        order_count == Len(served)
        average_order_value ==
            IF order_count > 0 THEN DivideToCents(total_revenue, order_count) ELSE 0
    IN  DailyRevenueCache(target_date, total_revenue, order_count, average_order_value)

\* the ids of the daily rows a query for target_date finds
ExistingDaily(store, target_date) ==
    {i \in DOMAIN store.daily_revenue_cache :
        store.daily_revenue_cache[i].date = target_date}

\* a faulty variant of _compute_daily_revenue: the update of an existing row
\* leaves its total_revenue as it was
_compute_daily_revenue_stale(sess, store, rows, target_date) ==
    LET entry == daily_entry(rows, target_date)
        existing == ExistingDaily(store, target_date)
    IN  IF existing # {}
        THEN modify(sess, "daily_revenue_cache", Min(existing),
                    [entry EXCEPT !.total_revenue =
                        store.daily_revenue_cache[Min(existing)].total_revenue])
        ELSE add(sess, "daily_revenue_cache", entry)

_compute_daily_revenue(sess, store, rows, target_date) ==
    LET entry == daily_entry(rows, target_date)
        existing == ExistingDaily(store, target_date)
    IN  IF existing # {}
        THEN modify(sess, "daily_revenue_cache", Min(existing), entry)
        ELSE add(sess, "daily_revenue_cache", entry)

\* a faulty variant of hourly_data: the hourly query leaves out the filter on
\* the status
hourly_data_any_status(rows, target_date) ==
    LET on_date == SelectSeq(rows, LAMBDA o : o.created_date = target_date)
    IN  [h \in {on_date[i].created_hour : i \in DOMAIN on_date} |->
            Cardinality({i \in DOMAIN on_date : on_date[i].created_hour = h})]

\* {int(r.hour): r.order_count for r in results}: the hours that have a
\* served order, each with its count (GROUP BY hour)
hourly_data(rows, target_date) ==
    LET served == ServedOn(rows, target_date)
    IN  [h \in {served[i].created_hour : i \in DOMAIN served} |->
            Cardinality({i \in DOMAIN served : served[i].created_hour = h})]

ExistingHourly(store, target_date, hour) ==
    {i \in DOMAIN store.hourly_order_cache :
        /\ store.hourly_order_cache[i].date = target_date
        /\ store.hourly_order_cache[i].hour = hour}

\* a faulty variant of upsert_hour: an hour without orders gets no row
upsert_hour_sparse(sess, store, data, target_date, hour) ==
    LET existing == ExistingHourly(store, target_date, hour)
    IN  IF hour \notin DOMAIN data THEN sess
        ELSE IF existing # {}
        THEN modify(sess, "hourly_order_cache", Min(existing),
                    HourlyOrderCache(target_date, hour, data[hour]))
        ELSE add(sess, "hourly_order_cache",
                 HourlyOrderCache(target_date, hour, data[hour]))

\* the body of "for hour in range(24)" for one hour
upsert_hour(sess, store, data, target_date, hour) ==
    LET order_count == IF hour \in DOMAIN data THEN data[hour] ELSE 0
        existing == ExistingHourly(store, target_date, hour)
        entry == HourlyOrderCache(target_date, hour, order_count)
    IN  IF existing # {}
        THEN modify(sess, "hourly_order_cache", Min(existing), entry)
        ELSE add(sess, "hourly_order_cache", entry)

\* range(24)
range_hours == [i \in 1..HoursPerDay |-> i - 1]

RECURSIVE HourLoop(_, _, _, _, _)
HourLoop(i, sess, store, data, target_date) ==
    IF i > Len(range_hours) THEN sess
    ELSE HourLoop(i + 1,
                  upsert_hour(sess, store, data, target_date, range_hours[i]),
                  store, data, target_date)

_compute_hourly_breakdown(sess, store, rows, target_date) ==
    HourLoop(1, sess, store, hourly_data(rows, target_date), target_date)

(***************************************************************************)
(* Forecast steps (_generate_daily_forecast, _generate_hourly_forecast).   *)
(* A forecast row is kept by its type and date.                            *)
(***************************************************************************)
\* query(date, total_revenue).filter(date >= cutoff_date).order_by(date).all()
daily_historical(store, day) ==
    LET cutoff_date == day - history_days_daily
        rows == OrderByDate(SelectSeq(store.daily_revenue_cache,
                                      LAMBDA r : r.date >= cutoff_date))
    IN  [i \in DOMAIN rows |-> <<rows[i].date, rows[i].total_revenue>>]

RECURSIVE DaysAheadLoop(_, _, _)
DaysAheadLoop(days_ahead, sess, day) ==
    IF days_ahead > ForecastDays THEN sess
    ELSE DaysAheadLoop(days_ahead + 1,
                       add(sess, "forecast_history",
                           ForecastHistory("daily_revenue", day + days_ahead)),
                       day)

_generate_daily_forecast(sess, store, day) ==
    IF daily_historical(store, day) = << >> THEN sess
    ELSE DaysAheadLoop(1, sess, day)

\* query(hour, order_count).filter(date >= cutoff_date).all()
hourly_historical(store, day) ==
    LET cutoff_date == day - history_days_hourly
        rows == SelectSeq(store.hourly_order_cache, LAMBDA r : r.date >= cutoff_date)
    IN  [i \in DOMAIN rows |-> <<rows[i].hour, rows[i].order_count>>]

\* the hours of the pairs generate_hourly_forecast returns, in order
forecast_hours == [i \in 1..HoursPerDay |-> i - 1]

RECURSIVE ForecastLoop(_, _, _)
ForecastLoop(i, sess, tomorrow) ==
    IF i > Len(forecast_hours) THEN sess
    ELSE ForecastLoop(i + 1,
                      add(sess, "forecast_history",
                          ForecastHistory(HourlyType(forecast_hours[i]), tomorrow)),
                      tomorrow)

_generate_hourly_forecast(sess, store, day) ==
    IF hourly_historical(store, day) = << >> THEN sess
    ELSE ForecastLoop(1, sess, day + 1)

(***************************************************************************)
(* run_batch_job, one action per statement that another thread can        *)
(* observe.                                                                *)
(***************************************************************************)
\* no entry point has been called outside a run
NoCall == [call |-> "none", arg |-> << >>, ret |-> << >>]

\* self.scheduler = None (line 31), no scheduler made and no call yet
NoScheduler ==
    [ref |-> 0, made |-> << >>, calls |-> 0,
     last |-> [call |-> "none", raises |-> "none"]]

\* orders_summed records the orders of the target date as the daily query saw
\* them, orders_read the orders table as the hourly query saw it
NoLocals ==
    [yesterday |-> -1, entry |-> << >>, orders_summed |-> << >>,
     hourly_data |-> << >>, orders_read |-> << >>, historical |-> << >>,
     hourly_historical |-> << >>]

Init ==
    /\ today = 1
    /\ orders = InitialOrders
    /\ placed = 0
    /\ db = EmptyDb
    /\ batch_lock = 0
    /\ is_running = [i \in Instances |-> FALSE]
    /\ commits = << >>
    /\ pc = [t \in Threads |-> "idle"]
    /\ self = [t \in Threads |-> 1]
    /\ order_db = [t \in Threads |-> NoSession]
    /\ analytics_db = [t \in Threads |-> NoSession]
    /\ locals = [t \in Threads |-> NoLocals]
    /\ exc = [t \in Threads |-> "none"]
    /\ trace = [t \in Threads |-> << >>]
    /\ before = [t \in Threads |-> EmptyDb]
    /\ svc = NoCall
    /\ scheduler = NoScheduler

env == <<today, orders, placed>>
shared == <<db, batch_lock, is_running>>
sessions == <<order_db, analytics_db>>

Did(t, event) == trace' = [trace EXCEPT ![t] = Append(@, event)]
Goto(t, label) == pc' = [pc EXCEPT ![t] = label]
Raise(t, what) == exc' = [exc EXCEPT ![t] = what]

\* a thread (the scheduler's worker or a direct caller) enters run_batch_job
\* of instance i
Call(t, i) ==
    /\ pc[t] = "idle"
    /\ UNCHANGED <<svc, scheduler>>
    /\ Len(commits) < MaxCommits
    /\ Goto(t, "acquire")
    /\ self' = [self EXCEPT ![t] = i]
    /\ UNCHANGED <<env, shared, commits, sessions, locals, exc, trace, before>>

\* a faulty variant of acquire: the lock is handed out even when it is held
acquire_unguarded(lock) == TRUE

\* batch_lock.acquire(blocking=False): whether the caller got the lock
acquire(lock) == lock = 0

\* a faulty variant of skip_to: the acquire sits inside the try, so a call
\* that did not get the lock runs the finally block
skip_to_finally == "clear_running"

\* where a call that did not get the lock continues: line 83, return
skip_to == "idle"

\* line 81: if not batch_lock.acquire(blocking=False): return
TryAcquire(t) ==
    /\ pc[t] = "acquire"
    /\ UNCHANGED <<svc, scheduler>>
    /\ IF acquire(batch_lock)
       THEN /\ batch_lock' = t
            /\ Goto(t, "set_running")
            /\ Did(t, "acquired")
            /\ before' = [before EXCEPT ![t] = db]
       ELSE /\ Goto(t, skip_to)
            /\ UNCHANGED <<batch_lock, trace, before>>
    /\ UNCHANGED <<env, db, is_running, commits, self, sessions, locals, exc>>

\* line 86: self.is_running = True
SetRunning(t) ==
    /\ pc[t] = "set_running"
    /\ UNCHANGED <<svc, scheduler>>
    /\ is_running' = [is_running EXCEPT ![self[t]] = TRUE]
    /\ Goto(t, "open_order")
    /\ UNCHANGED <<env, db, batch_lock, commits, self, sessions, locals, exc,
                   trace, before>>

\* line 93: order_db = database.OrderSessionLocal(), which may raise
OpenOrder(t) ==
    /\ pc[t] = "open_order"
    /\ UNCHANGED <<svc, scheduler>>
    /\ \/ /\ order_db' = [order_db EXCEPT ![t] = SessionLocal]
          /\ Goto(t, "open_analytics")
          /\ Did(t, "open_order")
          /\ UNCHANGED exc
       \/ /\ Raise(t, "open_order")
          /\ Goto(t, "clear_running")
          /\ UNCHANGED <<order_db, trace>>
    /\ UNCHANGED <<env, shared, commits, self, analytics_db, locals, before>>

\* line 94: analytics_db = database.AnalyticsSessionLocal(), which may raise
OpenAnalytics(t) ==
    /\ pc[t] = "open_analytics"
    /\ UNCHANGED <<svc, scheduler>>
    /\ \/ /\ analytics_db' = [analytics_db EXCEPT ![t] = SessionLocal]
          /\ Goto(t, "daily_revenue")
          /\ Did(t, "open_analytics")
          /\ UNCHANGED exc
       \/ /\ Raise(t, "open_analytics")
          /\ Goto(t, "clear_running")
          /\ UNCHANGED <<analytics_db, trace>>
    /\ UNCHANGED <<env, shared, commits, self, order_db, locals, before>>

\* a faulty variant of NextStep: the daily forecast runs before the hourly
\* aggregation
NextStepForecastFirst(step) ==
    CASE step = "daily_revenue"    -> "daily_forecast"
      [] step = "daily_forecast"   -> "hourly_breakdown"
      [] step = "hourly_breakdown" -> "hourly_forecast"
      [] step = "hourly_forecast"  -> "commit"
      [] step = "commit"           -> "close"

\* lines 100-112: the statement that follows a pipeline step that returned
NextStep(step) ==
    CASE step = "daily_revenue"    -> "hourly_breakdown"
      [] step = "hourly_breakdown" -> "daily_forecast"
      [] step = "daily_forecast"   -> "hourly_forecast"
      [] step = "hourly_forecast"  -> "commit"
      [] step = "commit"           -> "close"

\* a pipeline step (or the commit) raises: control goes to the except block
StepRaises(t) ==
    /\ Raise(t, pc[t])
    /\ Goto(t, "except")
    /\ Did(t, "raise")
    /\ UNCHANGED <<env, shared, commits, self, sessions, locals, before>>

StepReturns(t) ==
    /\ Goto(t, NextStep(pc[t]))
    /\ Did(t, pc[t])
    /\ UNCHANGED <<env, shared, commits, self, exc, before>>

\* a faulty variant of query: the step stamps the first order it read
query_stamps(sess, rows) ==
    IF rows = << >> THEN sess ELSE modify(sess, "orders", 1, rows[1])

\* order_db.query(...).filter(...).first() / .all(): the session after the
\* read of rows; a read leaves nothing pending in it
query(sess, rows) == sess

\* lines 98-101
DailyRevenue(t) ==
    /\ pc[t] = "daily_revenue"
    /\ UNCHANGED <<svc, scheduler>>
    /\ \/ StepRaises(t)
       \/ LET yesterday == today - 1 IN
          /\ analytics_db' = [analytics_db EXCEPT ![t] =
                 _compute_daily_revenue(@, db, orders, yesterday)]
          /\ locals' = [locals EXCEPT ![t].yesterday = yesterday,
                                      ![t].entry = daily_entry(orders, yesterday),
                                      ![t].orders_summed =
                                          OnDate(orders, yesterday)]
          /\ order_db' = [order_db EXCEPT ![t] = query(@, orders)]
          /\ StepReturns(t)

\* line 104
HourlyBreakdown(t) ==
    /\ pc[t] = "hourly_breakdown"
    /\ UNCHANGED <<svc, scheduler>>
    /\ \/ StepRaises(t)
       \/ /\ analytics_db' = [analytics_db EXCEPT ![t] =
                 _compute_hourly_breakdown(@, db, orders, locals[t].yesterday)]
          /\ locals' = [locals EXCEPT ![t].hourly_data =
                                          hourly_data(orders, locals[t].yesterday),
                                      ![t].orders_read = orders]
          /\ order_db' = [order_db EXCEPT ![t] = query(@, orders)]
          /\ StepReturns(t)

\* line 107
DailyForecast(t) ==
    /\ pc[t] = "daily_forecast"
    /\ UNCHANGED <<svc, scheduler>>
    /\ \/ StepRaises(t)
       \/ /\ analytics_db' = [analytics_db EXCEPT ![t] =
                 _generate_daily_forecast(@, db, today)]
          /\ locals' = [locals EXCEPT ![t].historical = daily_historical(db, today)]
          /\ UNCHANGED order_db
          /\ StepReturns(t)

\* line 110
HourlyForecast(t) ==
    /\ pc[t] = "hourly_forecast"
    /\ UNCHANGED <<svc, scheduler>>
    /\ \/ StepRaises(t)
       \/ /\ analytics_db' = [analytics_db EXCEPT ![t] =
                 _generate_hourly_forecast(@, db, today)]
          /\ locals' = [locals EXCEPT ![t].hourly_historical =
                            hourly_historical(db, today)]
          /\ UNCHANGED order_db
          /\ StepReturns(t)

\* line 112: analytics_db.commit(): the flush and the COMMIT; it raises when
\* a unique constraint refuses the flush, and may raise for any other reason
\* (the connection fails)
Commit(t) ==
    /\ pc[t] = "commit"
    /\ UNCHANGED <<svc, scheduler>>
    /\ \/ StepRaises(t)
       \/ IF FlushAccepted(Flush(db, analytics_db[t]))
          THEN /\ db' = Flush(db, analytics_db[t])
               /\ analytics_db' = [analytics_db EXCEPT ![t] = rollback(@)]
               /\ Goto(t, NextStep(pc[t]))
               /\ Did(t, "commit")
               /\ commits' = Append(commits, today)
               /\ UNCHANGED <<env, batch_lock, is_running, self, order_db,
                              locals, exc, before>>
          ELSE StepRaises(t)

\* a faulty variant of Except: the handler commits what the steps before the
\* failure wrote
ExceptCommits(t) ==
    /\ pc[t] = "except"
    /\ UNCHANGED <<svc, scheduler>>
    /\ db' = Flush(db, analytics_db[t])
    /\ analytics_db' = [analytics_db EXCEPT ![t] = rollback(@)]
    /\ Did(t, "rollback")
    /\ Goto(t, "close")
    /\ UNCHANGED <<env, batch_lock, is_running, commits, self, order_db, locals,
                   exc, before>>

\* lines 118-121: analytics_db.rollback(), which may itself raise; then raise
Except(t) ==
    /\ pc[t] = "except"
    /\ UNCHANGED <<svc, scheduler>>
    /\ \/ /\ analytics_db' = [analytics_db EXCEPT ![t] = rollback(@)]
          /\ Did(t, "rollback")
          /\ UNCHANGED exc
       \/ /\ Raise(t, "rollback")
          /\ UNCHANGED <<analytics_db, trace>>
    /\ Goto(t, "close")
    /\ UNCHANGED <<env, shared, commits, self, order_db, locals, before>>

\* lines 122-124: order_db.close(); analytics_db.close()
Close(t) ==
    /\ pc[t] = "close"
    /\ UNCHANGED <<svc, scheduler>>
    /\ order_db' = [order_db EXCEPT ![t] = close(@)]
    /\ analytics_db' = [analytics_db EXCEPT ![t] = close(@)]
    /\ trace' = [trace EXCEPT ![t] = @ \o <<"close_order", "close_analytics">>]
    /\ Goto(t, "clear_running")
    /\ UNCHANGED <<env, shared, commits, self, locals, exc, before>>

\* a faulty variant of ClearRunning: the flag is cleared at the end of the
\* try block, so only when nothing was raised
ClearRunningUnlessRaised(t) ==
    /\ pc[t] = "clear_running"
    /\ UNCHANGED <<svc, scheduler>>
    /\ is_running' = [is_running EXCEPT ![self[t]] = (exc[t] # "none")]
    /\ Goto(t, "release")
    /\ UNCHANGED <<env, db, batch_lock, commits, self, sessions, locals, exc,
                   trace, before>>

\* line 127: self.is_running = False
ClearRunning(t) ==
    /\ pc[t] = "clear_running"
    /\ UNCHANGED <<svc, scheduler>>
    /\ is_running' = [is_running EXCEPT ![self[t]] = FALSE]
    /\ Goto(t, "release")
    /\ UNCHANGED <<env, db, batch_lock, commits, self, sessions, locals, exc,
                   trace, before>>

\* a faulty variant of Release: the lock is released at the end of the try
\* block, so only when nothing was raised
ReleaseUnlessRaised(t) ==
    /\ pc[t] = "release"
    /\ UNCHANGED <<svc, scheduler>>
    /\ batch_lock' = IF exc[t] = "none" THEN 0 ELSE batch_lock
    /\ Goto(t, "idle")
    /\ self' = [self EXCEPT ![t] = 1]
    /\ order_db' = [order_db EXCEPT ![t] = NoSession]
    /\ analytics_db' = [analytics_db EXCEPT ![t] = NoSession]
    /\ locals' = [locals EXCEPT ![t] = NoLocals]
    /\ exc' = [exc EXCEPT ![t] = "none"]
    /\ trace' = [trace EXCEPT ![t] = << >>]
    /\ before' = [before EXCEPT ![t] = EmptyDb]
    /\ UNCHANGED <<env, db, is_running, commits>>

\* a faulty variant of Release: the lock is released in the inner finally
\* block as well, so the run comes to line 128 a second time
ReleaseTwice(t) ==
    /\ pc[t] = "release"
    /\ UNCHANGED <<svc, scheduler>>
    /\ batch_lock' = 0
    /\ IF batch_lock = t
       THEN UNCHANGED <<pc, self, sessions, locals, exc, trace, before>>
       ELSE /\ Goto(t, "idle")
            /\ self' = [self EXCEPT ![t] = 1]
            /\ order_db' = [order_db EXCEPT ![t] = NoSession]
            /\ analytics_db' = [analytics_db EXCEPT ![t] = NoSession]
            /\ locals' = [locals EXCEPT ![t] = NoLocals]
            /\ exc' = [exc EXCEPT ![t] = "none"]
            /\ trace' = [trace EXCEPT ![t] = << >>]
            /\ before' = [before EXCEPT ![t] = EmptyDb]
    /\ UNCHANGED <<env, db, is_running, commits>>

\* line 128: batch_lock.release(), a RuntimeError when the lock is not
\* locked. The call is then over: it returns, or exc[t] leaves it, and its
\* frame is gone.
Release(t) ==
    /\ pc[t] = "release"
    /\ UNCHANGED <<svc, scheduler>>
    /\ batch_lock' = 0
    /\ Goto(t, "idle")
    /\ self' = [self EXCEPT ![t] = 1]
    /\ order_db' = [order_db EXCEPT ![t] = NoSession]
    /\ analytics_db' = [analytics_db EXCEPT ![t] = NoSession]
    /\ locals' = [locals EXCEPT ![t] = NoLocals]
    /\ exc' = [exc EXCEPT ![t] = "none"]
    /\ trace' = [trace EXCEPT ![t] = << >>]
    /\ before' = [before EXCEPT ![t] = EmptyDb]
    /\ UNCHANGED <<env, db, is_running, commits>>

(***************************************************************************)
(* The environment: the order service writes the order store, and the day  *)
(* changes.                                                                *)
(***************************************************************************)
\* an order placed on the last day of the model is never aggregated
PlaceOrder ==
    /\ today < MaxDay
    /\ UNCHANGED <<svc, scheduler>>
    /\ placed < MaxOrders
    /\ placed' = placed + 1
    /\ \E h \in SampleHours, s \in SampleStatus, a \in SampleAmounts :
          orders' = Append(orders, Order(today, h, s, a))
    /\ UNCHANGED <<today, shared, commits, pc, self, sessions, locals, exc,
                   trace, before>>

ServeOrder ==
    /\ UNCHANGED <<svc, scheduler>>
    /\ \E i \in DOMAIN orders :
          /\ orders[i].status # "SERVED"
          /\ orders' = [orders EXCEPT ![i].status = "SERVED"]
    /\ UNCHANGED <<today, placed, shared, commits, pc, self, sessions, locals,
                   exc, trace, before>>

Midnight ==
    /\ today < MaxDay
    /\ UNCHANGED <<svc, scheduler>>
    /\ today' = today + 1
    /\ UNCHANGED <<orders, placed, shared, commits, pc, self, sessions, locals, exc,
                   trace, before>>

RunStep(t) ==
    \/ TryAcquire(t)
    \/ SetRunning(t)
    \/ OpenOrder(t)
    \/ OpenAnalytics(t)
    \/ DailyRevenue(t)
    \/ HourlyBreakdown(t)
    \/ DailyForecast(t)
    \/ HourlyForecast(t)
    \/ Commit(t)
    \/ Except(t)
    \/ Close(t)
    \/ ClearRunning(t)
    \/ Release(t)

Next ==
    \/ \E t \in Threads, i \in Instances : Call(t, i)
    \/ \E t \in Threads : RunStep(t)
    \/ PlaceOrder
    \/ ServeOrder
    \/ Midnight

Spec == Init /\ [][Next]_vars

\* a thread inside run_batch_job is scheduled again
FairSpec == Spec /\ \A t \in Threads : WF_vars(RunStep(t))

(***************************************************************************)
(* ForecastingService (app/services/forecasting_service.py).               *)
(*                                                                         *)
(* A Decimal with two decimals is its number of cents. A float is a number *)
(* of half cents, so that the median of an even number of Decimal values   *)
(* is exact; arithmetic that leaves that grid (the smoothing recurrence,   *)
(* the exponential weights, the regressions) is carried out on fractions   *)
(* and rounded once, where the code rounds. The exponential weights and    *)
(* the smoothing recurrence are kept to four and three more digits, and a  *)
(* value halfway between two cents is rounded to the even cent where the   *)
(* code follows the binary float: a forecast may differ from the code's by *)
(* a cent, and by more once forecasts are fed back as data. Which methods  *)
(* return 0 and which a positive value is the same.                        *)
(***************************************************************************)
\* float(value) of a Decimal, and of an int count of orders
float(cents) == 2 * cents
float_of_int(n) == 2 * (100 * n)

\* Decimal(str(round(num / den, 2))) for den > 0, in cents: the nearest cent,
\* a half to the even cent
round2(num, den) ==
    LET q == num \div den
        r == num % den
    IN  IF 2 * r < den THEN q
        ELSE IF 2 * r > den THEN q + 1
        ELSE IF q % 2 = 0 THEN q ELSE q + 1

\* round(x, 2) of a float x given in half cents
round2_float(x) == round2(x, 2)

Max(S) == CHOOSE x \in S : \A y \in S : y <= x

\* sorted(data)
sorted(data) == SortSeq(data, LAMBDA a, b : a < b)

\* 4 * np.percentile(data, 25 * quarter): linear interpolation between the
\* two order statistics around position quarter * (n - 1) / 4
percentile_x4(data, quarter) ==
    LET s == sorted(data)
        pos == quarter * (Len(s) - 1)
        k == pos \div 4
        r == pos % 4
    IN  IF r = 0 THEN 4 * s[k + 1]
        ELSE (4 * s[k + 1]) + (r * (s[k + 2] - s[k + 1]))

\* np.median(data) of float values on the cent grid
np_median(data) ==
    LET s == sorted(data)
        n == Len(s)
    IN  IF n % 2 = 1 THEN s[(n + 1) \div 2]
        ELSE (s[n \div 2] + s[(n \div 2) + 1]) \div 2

\* lower_bound <= x <= upper_bound, all of it times 8
within_bounds(data, x) ==
    LET q1 == percentile_x4(data, 1)
        q3 == percentile_x4(data, 3)
        iqr == q3 - q1
    IN  /\ (2 * q1) - (3 * iqr) <= 8 * x
        /\ 8 * x <= (2 * q3) + (3 * iqr)

\* a faulty variant of _remove_outliers: an outlier is replaced by the mean
\* of the list
_remove_outliers_mean(this, data) ==
    IF ~this.outlier_detection \/ Len(data) < 4 THEN data
    ELSE [i \in DOMAIN data |->
            IF within_bounds(data, data[i]) THEN data[i]
            ELSE SumSeq(data) \div Len(data)]

_remove_outliers(this, data) ==
    IF ~this.outlier_detection \/ Len(data) < 4 THEN data
    ELSE [i \in DOMAIN data |->
            IF within_bounds(data, data[i]) THEN data[i] ELSE np_median(data)]

\* Configuration of the service (config.py, ForecastingConfig): the smoothing
\* factors in tenths
moving_average_window == 7
exponential_smoothing_alpha == 3
trend_smoothing_beta == 1
polynomial_degree == 2

\* ForecastingService.__init__ with the default configuration
ForecastingService ==
    [moving_average_window |-> moving_average_window,
     enable_linear_regression |-> TRUE,
     enable_ensemble |-> TRUE,
     alpha |-> exponential_smoothing_alpha,
     beta |-> trend_smoothing_beta,
     polynomial_degree |-> polynomial_degree,
     outlier_detection |-> TRUE]

\* the fractions of a half cent the smoothing recurrence is carried in
FloatScale == 1000

\* num / den to the nearest integer, for den > 0
nearest(num, den) == ((2 * num) + den) \div (2 * den)

\* sorted(historical_data, key=lambda x: x[0]): stable, by date
RECURSIVE sorted_by_date(_)
sorted_by_date(series) ==
    IF series = << >> THEN << >>
    ELSE LET k == Min({series[i][1] : i \in DOMAIN series})
             i == Min({j \in DOMAIN series : series[j][1] = k})
             rest == [j \in 1..(Len(series) - 1) |->
                        IF j < i THEN series[j] ELSE series[j + 1]]
         IN  <<series[i]>> \o sorted_by_date(rest)

\* [float(value) for _, value in data]
float_values(data) == [i \in DOMAIN data |-> float(data[i][2])]

\* the loop of lines 91-94 from the i-th value on; level and trend in
\* 1/FloatScale of a half cent; the result is level + trend
RECURSIVE smooth(_, _, _, _, _)
smooth(this, values, i, level, trend) ==
    IF i > Len(values) THEN level + trend
    ELSE LET new_level ==
                 nearest((this.alpha * values[i] * FloatScale)
                            + ((10 - this.alpha) * (level + trend)), 10)
             new_trend ==
                 nearest((this.beta * (new_level - level))
                            + ((10 - this.beta) * trend), 10)
         IN  smooth(this, values, i + 1, new_level, new_trend)

exponential_smoothing_forecast(this, historical_data) ==
    IF historical_data = << >> THEN 0
    ELSE LET values == _remove_outliers(
                           this, float_values(sorted_by_date(historical_data)))
         IN  IF Len(values) < 2
             THEN round2_float(IF values # << >> THEN values[1] ELSE 0)
             ELSE LET next_forecast ==
                          smooth(this, values, 2, values[1] * FloatScale,
                                 (values[2] - values[1]) * FloatScale)
                  IN  round2(IF next_forecast > 0 THEN next_forecast ELSE 0,
                             2 * FloatScale)

\* 10000 * np.exp(np.linspace(0, 1, n)) to the nearest integer, for n = 1..8
ExpWeights ==
    << <<10000>>,
       <<10000, 27183>>,
       <<10000, 16487, 27183>>,
       <<10000, 13956, 19477, 27183>>,
       <<10000, 12840, 16487, 21170, 27183>>,
       <<10000, 12214, 14918, 18221, 22255, 27183>>,
       <<10000, 11814, 13956, 16487, 19477, 23010, 27183>>,
       <<10000, 11536, 13307, 15351, 17708, 20427, 23564, 27183>> >>

\* round(np.dot(values, weights / weights.sum()), 2), in cents
weighted_average(values) ==
    LET n == Len(values)
        w == ExpWeights[n]
    IN  round2(SumSeq([i \in 1..n |-> values[i] * w[i]]), 2 * SumSeq(w))

\* sorted_data[-window:]
last_window(data, window) ==
    IF Len(data) <= window THEN data
    ELSE SubSeq(data, Len(data) - window + 1, Len(data))

weighted_moving_average_forecast(this, historical_data) ==
    IF historical_data = << >> THEN 0
    ELSE LET window_data == last_window(sorted_by_date(historical_data),
                                        this.moving_average_window)
             values == _remove_outliers(this, float_values(window_data))
         IN  IF values = << >> THEN 0 ELSE weighted_average(values)

\* [(d - first_date).days for d, _ in sorted_data]
day_offsets(sorted_data) ==
    [i \in DOMAIN sorted_data |-> sorted_data[i][1] - sorted_data[1][1]]

\* (last_date + timedelta(days=days_ahead) - first_date).days
next_offset(sorted_data, days_ahead) ==
    sorted_data[Len(sorted_data)][1] + days_ahead - sorted_data[1][1]

\* LinearRegression().fit(X, y).predict([[next_day]])[0] as a fraction
\* <<numerator, denominator>> of half cents: the least-squares line; when all
\* the days are the same, the mean
linear_fit(X, y, next_day) ==
    LET n == Len(X)
        Sx == SumSeq(X)
        Sy == SumSeq(y)
        Sxx == SumSeq([i \in 1..n |-> X[i] * X[i]])
        Sxy == SumSeq([i \in 1..n |-> X[i] * y[i]])
        D == (n * Sxx) - (Sx * Sx)
        N == (n * Sxy) - (Sx * Sy)
    IN  IF D = 0 THEN <<Sy, n>>
        ELSE <<(Sy * D) + (N * ((n * next_day) - Sx)), n * D>>

\* a faulty variant of linear_regression_forecast: a single point is fitted
linear_regression_forecast_one_point(this, historical_data, days_ahead) ==
    IF historical_data = << >> THEN 0
    ELSE LET sorted_data == sorted_by_date(historical_data)
             y == _remove_outliers(this, float_values(sorted_data))
             prediction == linear_fit(day_offsets(sorted_data), y,
                                      next_offset(sorted_data, days_ahead))
         IN  round2(IF prediction[1] > 0 THEN prediction[1] ELSE 0,
                    2 * prediction[2])

linear_regression_forecast(this, historical_data, days_ahead) ==
    IF historical_data = << >> \/ Len(historical_data) < 2 THEN 0
    ELSE LET sorted_data == sorted_by_date(historical_data)
             y == _remove_outliers(this, float_values(sorted_data))
             prediction == linear_fit(day_offsets(sorted_data), y,
                                      next_offset(sorted_data, days_ahead))
         IN  round2(IF prediction[1] > 0 THEN prediction[1] ELSE 0,
                    2 * prediction[2])

Abs(x) == IF x < 0 THEN -x ELSE x

RECURSIVE Gcd(_, _)
Gcd(a, b) == IF b = 0 THEN Abs(a) ELSE Gcd(b, a % Abs(b))

RECURSIVE GcdSeq(_)
GcdSeq(s) == IF s = << >> THEN 0 ELSE Gcd(Head(s), GcdSeq(Tail(s)))

\* The sums of the powers 0..4 of the days x
power(b, k) == IF k = 0 THEN 1 ELSE b ^ k

power_sums(x) ==
    [k \in 0..4 |-> SumSeq([i \in DOMAIN x |-> power(x[i], k)])]

\* The normal equations of the least-squares parabola, from the power sums
\* S: the cofactors of their matrix, and its determinant
normal_equations(S) ==
    [A00 |-> (S[2] * S[4]) - (S[3] * S[3]),
     A01 |-> (S[2] * S[3]) - (S[1] * S[4]),
     A02 |-> (S[1] * S[3]) - (S[2] * S[2]),
     A11 |-> (S[0] * S[4]) - (S[2] * S[2]),
     A12 |-> (S[1] * S[2]) - (S[0] * S[3]),
     A22 |-> (S[0] * S[2]) - (S[1] * S[1]),
     det |-> (S[0] * ((S[2] * S[4]) - (S[3] * S[3])))
                + (S[1] * ((S[2] * S[3]) - (S[1] * S[4])))
                + (S[2] * ((S[1] * S[3]) - (S[2] * S[2])))]

\* det times the weight each y[i] has in the prediction for day xn
hat_row(A, x, xn) ==
    [i \in DOMAIN x |->
        (A.A00 + (A.A01 * x[i]) + (A.A02 * x[i] * x[i]))
        + (xn * (A.A01 + (A.A11 * x[i]) + (A.A12 * x[i] * x[i])))
        + (xn * xn * (A.A02 + (A.A12 * x[i]) + (A.A22 * x[i] * x[i])))]

\* sum(h[i] * y[i]) / det as a fraction in lower terms
reduced(h, det, y, g) ==
    <<SumSeq([i \in DOMAIN h |-> (h[i] \div g) * y[i]]), det \div g>>

predict(A, x, xn, y) ==
    reduced(hat_row(A, x, xn), A.det, y, Gcd(A.det, GcdSeq(hat_row(A, x, xn))))

\* PolynomialFeatures(degree=2) and LinearRegression().fit(X_poly, y)
\* .predict(X_next)[0] as a fraction <<numerator, denominator>> of half
\* cents: the least-squares parabola through days that take at least three
\* values. The days are counted from the middle of the range, which changes
\* neither the fit nor the prediction.
centred(X, c) == [i \in DOMAIN X |-> X[i] - c]

quadratic_fit(X, y, next_day) ==
    predict(normal_equations(power_sums(centred(X, next_day \div 2))),
            centred(X, next_day \div 2), next_day - (next_day \div 2), y)

\* with degree = None: the configured degree, which is 2
polynomial_regression_forecast(this, historical_data, days_ahead) ==
    LET degree == this.polynomial_degree IN
    IF historical_data = << >> \/ Len(historical_data) < degree + 1 THEN 0
    ELSE LET sorted_data == sorted_by_date(historical_data)
             y == _remove_outliers(this, float_values(sorted_data))
             prediction == quadratic_fit(day_offsets(sorted_data), y,
                                         next_offset(sorted_data, days_ahead))
         IN  round2(IF prediction[1] > 0 THEN prediction[1] ELSE 0,
                    2 * prediction[2])

\* The base weights of the ensemble, in hundredths (lines 284, 290, 297, 304)
EnsembleWeights == [exp |-> 30, wma |-> 25, lr |-> 25, poly |-> 20]

\* the methods in the order the ensemble asks them
EnsembleMethods == <<"exp", "wma", "lr", "poly">>

\* the forecast of one method of the ensemble
method_forecast(this, m, historical_data) ==
    CASE m = "exp"  -> exponential_smoothing_forecast(this, historical_data)
      [] m = "wma"  -> weighted_moving_average_forecast(this, historical_data)
      [] m = "lr"   -> linear_regression_forecast(this, historical_data, 1)
      [] m = "poly" -> polynomial_regression_forecast(this, historical_data, 1)

\* a faulty variant of considered: linear regression is asked from two
\* points on and polynomial regression from three
considered_early(m, historical_data) ==
    CASE m = "lr"   -> Len(historical_data) >= 2
      [] m = "poly" -> Len(historical_data) >= 3
      [] OTHER      -> TRUE

\* lines 293 and 300: whether the ensemble asks method m at all
considered(m, historical_data) ==
    CASE m = "lr"   -> Len(historical_data) >= 3
      [] m = "poly" -> Len(historical_data) >= 5
      [] OTHER      -> TRUE

\* lines 282, 288, 295, 302: if forecast > 0
contributes(forecast) == forecast > 0

\* what the ensemble keeps of method m: its forecast in cents and its base
\* weight
member(this, m, historical_data) ==
    [method |-> m,
     forecast |-> method_forecast(this, m, historical_data),
     weight |-> EnsembleWeights[m]]

\* the methods of asked that contribute
contributing(this, asked, historical_data) ==
    SelectSeq([i \in DOMAIN asked |-> member(this, asked[i], historical_data)],
              LAMBDA e : contributes(e.forecast))

\* the lists forecasts and weights after line 304: the methods that
\* contribute, each with its forecast and its base weight
ensemble_members(this, historical_data) ==
    contributing(this,
                 SelectSeq(EnsembleMethods,
                           LAMBDA m : considered(m, historical_data)),
                 historical_data)

\* a faulty variant of normalized_weights: the base weights are used as
\* they are
base_weights(weights) == [i \in DOMAIN weights |-> <<weights[i], 100>>]

\* [w / total_weight for w in weights], each a fraction
normalized_weights(weights) ==
    [i \in DOMAIN weights |-> <<weights[i], SumSeq(weights)>>]

\* sum(f * w for f, w in zip(forecasts, normalized_weights)), rounded: the
\* normalized weights have one denominator
weighted_sum(forecasts, nw) ==
    round2(SumSeq([i \in DOMAIN forecasts |-> forecasts[i] * nw[i][1]]),
           nw[1][2])

\* lines 306-316, for the forecasts and the normalized weights of the
\* methods that contribute
combined(members, forecasts, nw) ==
    IF forecasts = << >>
    THEN [members |-> members, normalized_weights |-> << >>, result |-> 0]
    ELSE [members |-> members, normalized_weights |-> nw,
          result |-> weighted_sum(forecasts, nw)]

combine(members) ==
    combined(members,
             [i \in DOMAIN members |-> members[i].forecast],
             normalized_weights([i \in DOMAIN members |-> members[i].weight]))

\* the locals of ensemble_forecast at its return: the methods that
\* contributed, the weights used, the value returned
ensemble_locals(this, historical_data) ==
    IF historical_data = << >>
    THEN [members |-> << >>, normalized_weights |-> << >>, result |-> 0]
    ELSE combine(ensemble_members(this, historical_data))

ensemble_forecast(this, historical_data) ==
    ensemble_locals(this, historical_data).result

generate_daily_forecast(this, historical_data) ==
    IF historical_data = << >> THEN 0
    ELSE IF this.enable_ensemble
         THEN ensemble_forecast(this, historical_data)
         ELSE exponential_smoothing_forecast(this, historical_data)

\* hour_groups[hour] after lines 363-367: the counts sampled for the hour,
\* in the order of the samples; empty when the hour is not a key
hour_groups(hourly, hour) ==
    LET samples == SelectSeq(hourly, LAMBDA p : p[1] = hour)
    IN  [i \in DOMAIN samples |-> samples[i][2]]

\* the body of the loop of line 370 for one hour: the forecast in hundredths
\* of an order
hour_forecast(this, hourly, hour) ==
    LET values == hour_groups(hourly, hour) IN
    IF values = << >> THEN 0
    ELSE LET cleaned_values ==
                 _remove_outliers(
                     this, [i \in DOMAIN values |-> float_of_int(values[i])])
         IN  IF cleaned_values = << >> THEN 0
             ELSE IF Len(cleaned_values) > 1
                  THEN weighted_average(cleaned_values)
                  ELSE round2_float(cleaned_values[1])

\* a faulty variant of _interpolate_missing_hours: the neighbour before is
\* taken from the result, where it may already be interpolated
RECURSIVE _interpolate_missing_hours_chained(_)
_interpolate_missing_hours_chained(forecasts) ==
    IF Len(forecasts) < 3 THEN forecasts
    ELSE LET n == Len(forecasts)
             result == _interpolate_missing_hours_chained(
                           SubSeq(forecasts, 1, n - 1))
             prev_val == result[n - 2][2]
             next_val == forecasts[n][2]
             mid == IF forecasts[n - 1][2] = 0 /\ (prev_val > 0 \/ next_val > 0)
                    THEN <<forecasts[n - 1][1],
                           round2(float(prev_val) + float(next_val), 4)>>
                    ELSE forecasts[n - 1]
         IN  SubSeq(result, 1, n - 2) \o <<mid, forecasts[n]>>

\* forecasts are pairs <<hour, value>>; position i of the code is position
\* i + 1 here. round((float(prev_val) + float(next_val)) / 2, 2) is the
\* nearest cent; where the mean lies halfway between two cents the code's
\* result follows the binary float, and the model takes the even cent.
_interpolate_missing_hours(forecasts) ==
    [i \in DOMAIN forecasts |->
        LET value == forecasts[i][2] IN
        IF value = 0 /\ i > 1 /\ i < Len(forecasts)
        THEN LET prev_val == forecasts[i - 1][2]
                 next_val == forecasts[i + 1][2]
             IN  IF prev_val > 0 \/ next_val > 0
                 THEN <<forecasts[i][1],
                        round2(float(prev_val) + float(next_val), 4)>>
                 ELSE forecasts[i]
        ELSE forecasts[i]]

\* a faulty variant of generate_hourly_forecast: hours without a sample
\* get no entry
generate_hourly_forecast_sparse(this, hourly) ==
    IF hourly = << >> THEN [i \in 1..24 |-> <<i - 1, 0>>]
    ELSE _interpolate_missing_hours(
             SelectSeq([i \in 1..24 |->
                           <<i - 1, hour_forecast(this, hourly, i - 1)>>],
                       LAMBDA f : hour_groups(hourly, f[1]) # << >>))

generate_hourly_forecast(this, hourly) ==
    IF hourly = << >> THEN [i \in 1..24 |-> <<i - 1, 0>>]
    ELSE _interpolate_missing_hours(
             [i \in 1..24 |->
                 <<i - 1, hour_forecast(this, hourly, i - 1)>>])

(***************************************************************************)
(* The progressive forecast of BatchProcessor._generate_daily_forecast     *)
(* (lines 253-277), with its values. mem holds the two lists the loop      *)
(* works on, historical_data and extended_data.                            *)
(***************************************************************************)
\* a faulty variant of append: extended_data is historical_data itself, not
\* a copy of it
append_aliased(mem, point) ==
    [historical_data |-> Append(mem.historical_data, point),
     extended_data |-> Append(mem.extended_data, point)]

\* extended_data.append(point)
append(mem, point) ==
    [mem EXCEPT !.extended_data = Append(@, point)]

\* extended_data = historical_data.copy()
copy(mem) == [mem EXCEPT !.extended_data = mem.historical_data]

\* lines 264-267: the loop over i in range(1, days_ahead), from i on
RECURSIVE extend(_, _, _, _, _)
extend(this, mem, day, i, days_ahead) ==
    IF i >= days_ahead THEN mem
    ELSE extend(this,
                append(mem, <<day + i,
                              generate_daily_forecast(this, mem.extended_data)>>),
                day, i + 1, days_ahead)

\* lines 258-267: the two lists when forecast_value is computed
lists_used(this, mem, day, days_ahead) ==
    IF days_ahead = 1 THEN [mem EXCEPT !.extended_data = mem.historical_data]
    ELSE extend(this, copy(mem), day, 1, days_ahead)

\* lines 259 and 267: the series the forecast is made of
series_used(used, days_ahead) ==
    IF days_ahead = 1 THEN used.historical_data ELSE used.extended_data

\* lines 270-275
forecast_entry(forecast_value, forecast_date) ==
    [forecast_type |-> "daily_revenue",
     forecast_value |-> forecast_value,
     forecast_date |-> forecast_date]

\* lines 253-277: the loop over days_ahead in range(1, 8), from days_ahead
\* on; added collects the ForecastHistory entries given to analytics_db.add
RECURSIVE forecast_days(_, _, _, _, _)
RECURSIVE forecast_day(_, _, _, _, _)
forecast_day(this, used, day, days_ahead, added) ==
    forecast_days(
        this, used, day, days_ahead + 1,
        Append(added,
               forecast_entry(
                   generate_daily_forecast(this, series_used(used, days_ahead)),
                   day + days_ahead)))

forecast_days(this, mem, day, days_ahead, added) ==
    IF days_ahead > ForecastDays
    THEN [historical_data |-> mem.historical_data, added |-> added]
    ELSE forecast_day(this, lists_used(this, mem, day, days_ahead),
                      day, days_ahead, added)

(***************************************************************************)
(* BatchProcessor.start (lines 35-66). A string is the sequence of its     *)
(* characters.                                                             *)
(***************************************************************************)
Digits == <<"0", "1", "2", "3", "4", "5", "6", "7", "8", "9">>

IsDigit(c) == \E d \in DOMAIN Digits : Digits[d] = c

DigitValue(c) == (CHOOSE d \in DOMAIN Digits : Digits[d] = c) - 1

\* str.split(sep)
RECURSIVE split(_, _)
split(str, sep) ==
    LET at == {i \in DOMAIN str : str[i] = sep} IN
    IF at = {} THEN <<str>>
    ELSE <<SubSeq(str, 1, Min(at) - 1)>>
            \o split(SubSeq(str, Min(at) + 1, Len(str)), sep)

\* the digits of a decimal literal, after an optional sign
unsigned(str) ==
    IF str # << >> /\ str[1] \in {"+", "-"} THEN Tail(str) ELSE str

\* whether int(str) returns: a sign at most and one digit at least (the
\* strings of the model hold no blanks and no underscores)
is_int(str) ==
    /\ unsigned(str) # << >>
    /\ \A i \in DOMAIN unsigned(str) : IsDigit(unsigned(str)[i])

RECURSIVE digits_value(_)
digits_value(str) ==
    IF str = << >> THEN 0
    ELSE (10 * digits_value(SubSeq(str, 1, Len(str) - 1)))
            + DigitValue(str[Len(str)])

\* int(str)
int(str) ==
    IF str[1] = "-" THEN 0 - digits_value(unsigned(str))
    ELSE digits_value(unsigned(str))

\* lines 50-54: hour, minute = map(int, run_time.split(':')) raises
\* ValueError when a part is no integer or when there are not two parts, and
\* then hour, minute = 0, 0
parse_run_time(run_time) ==
    LET parts == split(run_time, ":") IN
    IF Len(parts) = 2 /\ is_int(parts[1]) /\ is_int(parts[2])
    THEN [hour |-> int(parts[1]), minute |-> int(parts[2])]
    ELSE [hour |-> 0, minute |-> 0]

\* CronTrigger(hour=hour, minute=minute) of APScheduler raises ValueError
\* for a field outside its range
CronTrigger_raises(hour, minute) ==
    ~(hour \in 0..23 /\ minute \in 0..59)

\* start() of a processor whose scheduler is None: what is raised, the state
\* of self.scheduler afterwards, and the time of the job that was added
start(scheduler_enabled, scheduler_run_time) ==
    IF ~scheduler_enabled
    THEN [raises |-> "none", scheduler |-> "None", job |-> << >>]
    ELSE LET at == parse_run_time(scheduler_run_time) IN
         IF CronTrigger_raises(at.hour, at.minute)
         THEN [raises |-> "ValueError", scheduler |-> "created", job |-> << >>]
         ELSE [raises |-> "none", scheduler |-> "started",
               job |-> <<at.hour, at.minute>>]

(***************************************************************************)
(* The service and start() on their own: one call, its argument drawn from *)
(* the samples below.                                                      *)
(***************************************************************************)
MaxLen == 5
MaxSamples == 3
MaxHistory == 3

SeqsUpTo(S, n) == UNION {[1..k -> S] : k \in 0..n}

\* historical_data: revenues in cents on dates that are all different, in
\* order, out of order or with gaps
SampleSeries ==
    {[i \in DOMAIN values |-> <<dates[i], values[i]>>] :
        values \in SeqsUpTo({-500, 0, 1000, 4000}, MaxLen),
        dates \in {[i \in 1..MaxLen |-> i],
                   [i \in 1..MaxLen |-> IF i % 2 = 1 THEN i + 1 ELSE i - 1],
                   [i \in 1..MaxLen |-> 2 * i]}}

\* the service under each setting of the two switches it consults, and with
\* linear regression disabled in the configuration
Services ==
    {[ForecastingService EXCEPT !.outlier_detection = o, !.enable_ensemble = e] :
        o \in BOOLEAN, e \in BOOLEAN}
    \cup {[ForecastingService EXCEPT !.enable_linear_regression = FALSE]}

\* hourly_data: pairs of an hour and a count
SampleHourly == SeqsUpTo({-1, 4, 6, 23, 24} \X {0, 3, 8}, MaxSamples)

\* 24 forecasts in hundredths, zero except at the first and the last hours
SampleForecasts ==
    {[i \in 1..24 |-> <<i - 1, IF (i - 1) \in DOMAIN f THEN f[i - 1] ELSE 0>>] :
        f \in [(0..3) \cup (21..23) -> {0, 4, 7}]}

SampleRunTimes ==
    {<<"0", "0", ":", "0", "0">>, <<"0", "2", ":", "3", "0">>,
     <<"2", "3", ":", "5", "9">>, <<"2", "5", ":", "9", "9">>,
     <<"2", "4", ":", "0", "0">>, <<"1", "2", ":", "6", "0">>,
     <<"-", "1", ":", "0", "0">>, <<"a", "b", ":", "c", "d">>,
     <<"0", "2", "3", "0">>, <<"1", ":", "2", ":", "3">>,
     <<":", "3", "0">>, <<"7">>, << >>}

\* the rows _generate_daily_forecast reads: ordered by date, with a gap or
\* without, smaller revenues
SampleHistory ==
    {[i \in DOMAIN values |-> <<dates[i], values[i]>>] :
        values \in SeqsUpTo({0, 150, 400}, MaxHistory) \ {<< >>},
        dates \in {[i \in 1..MaxHistory |-> i],
                   [i \in 1..MaxHistory |-> IF i = 1 THEN 1 ELSE i + 1]}}

\* no method called yet, and the argument of the call to come
Calling(kind, this, data) ==
    [NoCall EXCEPT !.arg = [kind |-> kind, this |-> this, data |-> data]]

batch_vars == <<today, orders, placed, db, batch_lock, is_running, commits, pc,
                self, order_db, analytics_db, locals, exc, trace, before>>

ServiceInit ==
    /\ today = 1
    /\ orders = InitialOrders
    /\ placed = 0
    /\ db = EmptyDb
    /\ batch_lock = 0
    /\ is_running = [i \in Instances |-> FALSE]
    /\ commits = << >>
    /\ pc = [t \in Threads |-> "idle"]
    /\ self = [t \in Threads |-> 1]
    /\ order_db = [t \in Threads |-> NoSession]
    /\ analytics_db = [t \in Threads |-> NoSession]
    /\ locals = [t \in Threads |-> NoLocals]
    /\ exc = [t \in Threads |-> "none"]
    /\ trace = [t \in Threads |-> << >>]
    /\ before = [t \in Threads |-> EmptyDb]
    /\ scheduler = NoScheduler
    /\ \/ \E e \in BOOLEAN, r \in SampleRunTimes :
             svc = Calling("config", ForecastingService,
                           [scheduler_enabled |-> e, scheduler_run_time |-> r])
       \/ \E s \in Services, d \in SampleHistory : svc = Calling("history", s, d)
       \/ \E d \in SampleForecasts :
             svc = Calling("forecasts", ForecastingService, d)
       \/ \E s \in Services, d \in SampleHourly : svc = Calling("hourly", s, d)
       \/ \E s \in Services, d \in SampleSeries : svc = Calling("series", s, d)

Returns(call, ret) ==
    /\ svc' = [svc EXCEPT !.call = call, !.ret = ret]
    /\ UNCHANGED <<batch_vars, scheduler>>

Called(kind) == svc.call = "none" /\ svc.arg.kind = kind

RemoveOutliers ==
    /\ Called("series")
    /\ Returns("_remove_outliers",
               _remove_outliers(svc.arg.this, float_values(svc.arg.data)))

ExponentialSmoothing ==
    /\ Called("series")
    /\ Returns("exponential_smoothing_forecast",
               exponential_smoothing_forecast(svc.arg.this, svc.arg.data))

WeightedMovingAverage ==
    /\ Called("series")
    /\ Returns("weighted_moving_average_forecast",
               weighted_moving_average_forecast(svc.arg.this, svc.arg.data))

LinearRegression ==
    /\ Called("series")
    /\ Returns("linear_regression_forecast",
               linear_regression_forecast(svc.arg.this, svc.arg.data, 1))

PolynomialRegression ==
    /\ Called("series")
    /\ Returns("polynomial_regression_forecast",
               polynomial_regression_forecast(svc.arg.this, svc.arg.data, 1))

\* ensemble_forecast, with its locals
Ensemble ==
    /\ Called("series")
    /\ Returns("ensemble_forecast",
               ensemble_locals(svc.arg.this, svc.arg.data))

GenerateDaily ==
    /\ Called("series")
    /\ Returns("generate_daily_forecast",
               generate_daily_forecast(svc.arg.this, svc.arg.data))

\* the loop of _generate_daily_forecast over the rows it read, on the day
\* of the last row
Progressive ==
    /\ Called("history")
    /\ Returns("_generate_daily_forecast",
               forecast_days(svc.arg.this,
                             [historical_data |-> svc.arg.data,
                              extended_data |-> << >>],
                             Max({svc.arg.data[i][1] : i \in DOMAIN svc.arg.data}),
                             1, << >>))

GenerateHourly ==
    /\ Called("hourly")
    /\ Returns("generate_hourly_forecast",
               generate_hourly_forecast(svc.arg.this, svc.arg.data))

Interpolate ==
    /\ Called("forecasts")
    /\ Returns("_interpolate_missing_hours",
               _interpolate_missing_hours(svc.arg.data))

Start ==
    /\ Called("config")
    /\ Returns("start", start(svc.arg.data.scheduler_enabled,
                              svc.arg.data.scheduler_run_time))

ServiceNext ==
    \/ RemoveOutliers
    \/ ExponentialSmoothing
    \/ WeightedMovingAverage
    \/ LinearRegression
    \/ PolynomialRegression
    \/ Ensemble
    \/ GenerateDaily
    \/ Progressive
    \/ GenerateHourly
    \/ Interpolate
    \/ Start

ServiceSpec == ServiceInit /\ [][ServiceNext]_vars

(***************************************************************************)
(* The scheduler of the service's processor (instance 1, the module-level  *)
(* batch_processor): start() and stop() called in any order, and the job   *)
(* fired by a running scheduler. A BackgroundScheduler is kept by the      *)
(* order it was made in; it runs its jobs from start() to shutdown(). When *)
(* the job is fired is left open: a running scheduler may fire it at any   *)
(* moment, also while a run is in flight.                                  *)
(***************************************************************************)
MaxCalls == 4

\* BackgroundScheduler(): not running, no job
BackgroundScheduler == [running |-> FALSE, jobs |-> << >>]

\* add_job(func=self.run_batch_job, trigger=CronTrigger(hour, minute),
\* id=id, replace_existing=True)
add_job(sched, id, at) ==
    [sched EXCEPT !.jobs = SelectSeq(@, LAMBDA j : j.id # id)
                               \o <<[id |-> id, at |-> at]>>]

\* lines 35-66 on a processor in any state: the return of line 39, the return
\* of line 43, or the scheduler that start makes, with its job and running
\* unless CronTrigger raised
BatchProcessor_start(s, config) ==
    LET ret == start(config.scheduler_enabled, config.scheduler_run_time)
        called == [s EXCEPT !.calls = @ + 1,
                            !.last = [call |-> "start", raises |-> ret.raises]]
    IN  IF ~config.scheduler_enabled THEN called
        ELSE IF s.ref # 0 THEN [called EXCEPT !.last.raises = "none"]
        ELSE [called EXCEPT
                 !.ref = Len(s.made) + 1,
                 !.made = Append(@,
                     IF ret.scheduler = "started"
                     THEN [add_job(BackgroundScheduler, "midnight_batch", ret.job)
                              EXCEPT !.running = TRUE]
                     ELSE BackgroundScheduler)]

\* lines 68-73: shutdown(wait=False) of APScheduler raises
\* SchedulerNotRunningError for a scheduler that is not running, and line 73
\* is then not reached; else the scheduler stops firing its jobs, and a job
\* that is being run is left to finish
BatchProcessor_stop(s) ==
    LET called == [s EXCEPT !.calls = @ + 1,
                            !.last = [call |-> "stop", raises |-> "none"]]
    IN  IF s.ref = 0 THEN called
        ELSE IF ~s.made[s.ref].running
        THEN [called EXCEPT !.last.raises = "SchedulerNotRunningError"]
        ELSE [called EXCEPT !.ref = 0, !.made[s.ref].running = FALSE]

\* the schedulers that fire their jobs
Running == {k \in DOMAIN scheduler.made : scheduler.made[k].running}

SchedulerInit ==
    /\ today = 1
    /\ orders = InitialOrders
    /\ placed = 0
    /\ db = EmptyDb
    /\ batch_lock = 0
    /\ is_running = [i \in Instances |-> FALSE]
    /\ commits = << >>
    /\ pc = [t \in Threads |-> "idle"]
    /\ self = [t \in Threads |-> 1]
    /\ order_db = [t \in Threads |-> NoSession]
    /\ analytics_db = [t \in Threads |-> NoSession]
    /\ locals = [t \in Threads |-> NoLocals]
    /\ exc = [t \in Threads |-> "none"]
    /\ trace = [t \in Threads |-> << >>]
    /\ before = [t \in Threads |-> EmptyDb]
    /\ scheduler = NoScheduler
    /\ \E e \in BOOLEAN,
          r \in {<<"0", "2", ":", "3", "0">>, <<"2", "5", ":", "9", "9">>,
                 <<"a", "b", ":", "c", "d">>} :
          svc = Calling("config", ForecastingService,
                        [scheduler_enabled |-> e, scheduler_run_time |-> r])

\* batch_processor.start() (main.py, line 41, or any other caller)
StartScheduler ==
    /\ scheduler.calls < MaxCalls
    /\ scheduler' = BatchProcessor_start(scheduler, svc.arg.data)
    /\ UNCHANGED <<svc, batch_vars>>

\* batch_processor.stop() (main.py, line 59, or any other caller)
StopScheduler ==
    /\ scheduler.calls < MaxCalls
    /\ scheduler' = BatchProcessor_stop(scheduler)
    /\ UNCHANGED <<svc, batch_vars>>

\* a running scheduler submits its job: a worker thread calls run_batch_job
\* of the processor
Fire(t) ==
    /\ \E k \in Running : scheduler.made[k].jobs # << >>
    /\ Call(t, 1)

SchedulerNext ==
    \/ StartScheduler
    \/ StopScheduler
    \/ \E t \in Threads : Fire(t)
    \/ \E t \in Threads : RunStep(t)

SchedulerSpec == SchedulerInit /\ [][SchedulerNext]_vars

\* a thread inside run_batch_job is scheduled again
FairSchedulerSpec == SchedulerSpec /\ \A t \in Threads : WF_vars(RunStep(t))

(***************************************************************************)
(* Properties.                                                             *)
(***************************************************************************)
\* the positions between the acquisition of the lock and its release
Holding ==
    {"set_running", "open_order", "open_analytics", "daily_revenue",
     "hourly_breakdown", "daily_forecast", "hourly_forecast", "commit",
     "except", "close", "clear_running", "release"}

PipelineSteps ==
    <<"daily_revenue", "hourly_breakdown", "daily_forecast", "hourly_forecast",
      "commit">>

Happened(t, event) == \E k \in DOMAIN trace[t] : trace[t][k] = event

\* C1: at most one run is between guard acquisition and guard release at any
\* time, whatever threads and instances the triggers come from.
C1_OneRunAtATime ==
    Cardinality({t \in Threads : pc[t] \in Holding}) <= 1

\* a trigger on another instance arrives while a run is in its pipeline
C1_Witness ==
    \E t, u \in Threads :
        /\ pc[t] = "hourly_breakdown"
        /\ pc[u] = "acquire"
        /\ self[t] # self[u]

\* C2: a trigger that finds the guard held by another run returns at once
\* without raising: it opens no session, writes nothing, leaves the guard and
\* the running flags alone, and nothing of it is left to run later.
C2_SkipIsNoOp ==
    /\ [](\A t \in Threads : pc[t] = "acquire" => ENABLED TryAcquire(t))
    /\ [][\A t \in Threads :
            (pc[t] = "acquire" /\ batch_lock # 0 /\ pc'[t] # "acquire") =>
                /\ pc'[t] = "idle"
                /\ exc'[t] = "none"
                /\ trace'[t] = << >>
                /\ order_db'[t] = NoSession
                /\ analytics_db'[t] = NoSession
                /\ db' = db
                /\ batch_lock' = batch_lock
                /\ is_running' = is_running
                /\ commits' = commits
                /\ \A u \in Threads \ {t} : pc'[u] = pc[u]]_vars

\* a trigger has been skipped while the other run goes on
C2_Witness ==
    \E t, u \in Threads :
        /\ t # u
        /\ pc[t] = "acquire"
        /\ batch_lock = u
        /\ pc[u] = "commit"

\* C3: only a run inside run_batch_job holds the guard, the end of a run
\* leaves the guard free whatever path the run took, and a held guard is
\* always given back in the end.
C3_GuardReleased ==
    /\ [](\A t \in Threads : batch_lock = t => pc[t] \in Holding)
    /\ [][\A t \in Threads :
            (pc[t] \in Holding /\ pc'[t] = "idle") => batch_lock' = 0]_vars
    /\ \A t \in Threads : (batch_lock = t) ~> (batch_lock = 0)

\* a run whose rollback raised is about to give the guard back, while another
\* trigger is at the acquire
C3_Witness ==
    \E t, u \in Threads :
        /\ t # u
        /\ batch_lock = t
        /\ pc[t] = "release"
        /\ exc[t] = "rollback"
        /\ pc[u] = "acquire"

C5_SessionsClosed ==
    \A t \in Threads :
        pc[t] = "release" =>
            /\ order_db[t].state # "open"
            /\ analytics_db[t].state # "open"

\* the steps and the commit of the run of t, in the order they happened
StepsDone(t) ==
    SelectSeq(trace[t], LAMBDA e : e \in Range(PipelineSteps))

\* C6: the steps of a run happen in the order daily aggregation, hourly
\* aggregation, daily forecast, hourly forecast, commit, each once; the
\* analytics store changes only in the commit of a run whose four steps are
\* done, and that commit leaves nothing of the run unwritten.
C6_StepsInOrder ==
    /\ [](\A t \in Threads : IsPrefix(StepsDone(t), PipelineSteps))
    /\ [][db' # db =>
            \E t \in Threads :
                /\ pc[t] = "commit"
                /\ StepsDone(t) = SubSeq(PipelineSteps, 1, 4)
                /\ StepsDone(t)' = PipelineSteps
                /\ db' = Flush(db, analytics_db[t])
                /\ analytics_db'[t].new = << >>
                /\ analytics_db'[t].dirty = << >>]_vars

\* a run has committed rows of all three tables at once
C6_Witness ==
    \E t \in Threads :
        /\ pc[t] = "close"
        /\ StepsDone(t) = PipelineSteps
        /\ Len(db.forecast_history) > Len(before[t].forecast_history)
        /\ Len(db.hourly_order_cache) > Len(before[t].hourly_order_cache)

\* the run of t has committed and not yet returned
Committed(t) == pc[t] = "close" /\ Happened(t, "commit")

\* C7: the history the daily forecast step reads holds the daily row for
\* yesterday that the aggregation step of the same run wrote, and the history
\* the hourly forecast step reads holds the 24 hourly rows it wrote.
C7_ForecastReadsOwnWrites ==
    \A t \in Threads :
        /\ Happened(t, "daily_forecast") =>
               <<locals[t].yesterday, locals[t].entry.total_revenue>>
                   \in Range(locals[t].historical)
        /\ Happened(t, "hourly_forecast") =>
               \A h \in Hours :
                   <<h, IF h \in DOMAIN locals[t].hourly_data
                        THEN locals[t].hourly_data[h] ELSE 0>>
                       \in Range(locals[t].hourly_historical)

\* C8: the store never holds two daily rows for one date, and a committed run
\* leaves exactly one row for its date, holding the total, count and average
\* the run computed; a date already aggregated gets no second row.
C8_OneDailyRowPerDate ==
    /\ DailyUnique(db.daily_revenue_cache)
    /\ \A t \in Threads :
          Committed(t) =>
              /\ \E i \in DOMAIN db.daily_revenue_cache :
                    /\ ExistingDaily(db, locals[t].yesterday) = {i}
                    /\ db.daily_revenue_cache[i] = locals[t].entry
              /\ Len(db.daily_revenue_cache) =
                    Len(before[t].daily_revenue_cache)
                    + (IF ExistingDaily(before[t], locals[t].yesterday) = {}
                       THEN 1 ELSE 0)

\* a run has aggregated again a date whose row held another total and count
C8_Witness ==
    \E t \in Threads :
        /\ Committed(t)
        /\ \E i \in ExistingDaily(before[t], locals[t].yesterday) :
              /\ before[t].daily_revenue_cache[i].total_revenue
                    # locals[t].entry.total_revenue
              /\ before[t].daily_revenue_cache[i].order_count
                    # locals[t].entry.order_count

\* the served orders of date d and hour h among rows
ServedAt(rows, d, h) ==
    {k \in DOMAIN rows :
        /\ rows[k].status = "SERVED"
        /\ rows[k].created_date = d
        /\ rows[k].created_hour = h}

\* C9: every date of the hourly table has exactly 24 rows, one for each hour
\* 0..23, and a committed run leaves for each hour of its date the number of
\* served orders it read, 0 for an hour without one.
C9_TwentyFourHourlyRows ==
    /\ \A d \in {db.hourly_order_cache[i].date : i \in DOMAIN db.hourly_order_cache} :
          /\ \A h \in Hours : ExistingHourly(db, d, h) # {}
          /\ Cardinality({i \in DOMAIN db.hourly_order_cache :
                             db.hourly_order_cache[i].date = d}) = HoursPerDay
    /\ \A t \in Threads :
          Committed(t) =>
              \A h \in Hours :
                  \E i \in DOMAIN db.hourly_order_cache :
                      db.hourly_order_cache[i] =
                          HourlyOrderCache(
                              locals[t].yesterday, h,
                              Cardinality(ServedAt(locals[t].orders_read,
                                                   locals[t].yesterday, h)))

\* a run has processed again a date whose rows were there, changing the count
\* of one hour and leaving the hours without orders at 0
C9_Witness ==
    \E t \in Threads :
        /\ Committed(t)
        /\ \E i \in DOMAIN before[t].hourly_order_cache :
              /\ before[t].hourly_order_cache[i].date = locals[t].yesterday
              /\ before[t].hourly_order_cache[i].hour \in DOMAIN locals[t].hourly_data
              /\ before[t].hourly_order_cache[i].order_count
                    # locals[t].hourly_data[before[t].hourly_order_cache[i].hour]
        /\ \E h \in Hours : h \notin DOMAIN locals[t].hourly_data

\* the committed forecast rows of the given type and date
ForecastRows(type, d) ==
    {k \in DOMAIN db.forecast_history :
        db.forecast_history[k] = ForecastHistory(type, d)}

\* C10: two runs that committed on the same day leave two daily forecast rows
\* for the day after it.
C10_ForecastsAccumulate ==
    \A i, j \in DOMAIN commits :
        (i < j /\ commits[i] = commits[j]) =>
            Cardinality(ForecastRows("daily_revenue", commits[i] + 1)) >= 2

\* C10, the part on committed rows: a step of the system only appends to the
\* committed forecast rows.
C10_AppendOnly ==
    [][IsPrefix(db.forecast_history, db'.forecast_history)]_vars

\* C11: no step of a run issues a write through the source session, and a
\* step of a run (one that moves a thread inside run_batch_job, whether the
\* run commits, rolls back or is skipped) leaves the order store as it was.
C11_SourceStoreUntouched ==
    /\ [](\A t \in Threads :
            order_db[t].new = << >> /\ order_db[t].dirty = << >>)
    /\ [][pc' # pc => orders' = orders]_vars

\* a run has read the orders of its date through the source session and
\* committed
C11_Witness ==
    \E t \in Threads :
        /\ Committed(t)
        /\ locals[t].entry.order_count > 0
        /\ order_db[t].state = "open"

(***************************************************************************)
(* Properties of the forecasting service and of start().                   *)
(***************************************************************************)
Returned(call) == svc.call = call

\* the four forecast methods
ForecastMethods ==
    {"exponential_smoothing_forecast", "weighted_moving_average_forecast",
     "linear_regression_forecast", "polynomial_regression_forecast"}

\* C12: for every collection of (hour, count) samples, empty, sparse, with
\* repeated hours or with hours outside 0..23, generate_hourly_forecast
\* returns 24 pairs whose hours are 0, 1, ..., 23 in that order.
C12_TwentyFourHours ==
    Returned("generate_hourly_forecast") =>
        /\ Len(svc.ret) = 24
        /\ \A i \in 1..24 : svc.ret[i][1] = i - 1

\* a sample with a repeated hour and an hour outside 0..23 was forecast
C12_Witness ==
    /\ Returned("generate_hourly_forecast")
    /\ \E i \in DOMAIN svc.arg.data : svc.arg.data[i][1] \notin 0..23
    /\ \E i, j \in DOMAIN svc.arg.data :
          i # j /\ svc.arg.data[i][1] = svc.arg.data[j][1]

\* whether r is what interpolation makes of the 24 forecasts f: an interior
\* hour that is 0 and has a positive neighbour gets the mean of its two
\* neighbours in f, to the nearest hundredth; every other hour keeps its
\* value
Interpolated(f, r) ==
    /\ Len(r) = Len(f)
    /\ \A i \in DOMAIN f :
          /\ r[i][1] = f[i][1]
          /\ IF /\ i \in 2..(Len(f) - 1)
                /\ f[i][2] = 0
                /\ (f[i - 1][2] > 0 \/ f[i + 1][2] > 0)
             THEN (2 * r[i][2]) - (f[i - 1][2] + f[i + 1][2]) \in {-1, 0, 1}
             ELSE r[i][2] = f[i][2]

C14_NonNegative ==
    (svc.call \in ForecastMethods) => svc.ret >= 0

\* C15: in ensemble_forecast a method contributes exactly when it is
\* considered and its output is strictly positive; linear regression is
\* considered from 3 points on and polynomial regression from 5 points on;
\* a method that returns 0 contributes neither a value nor a weight.
C15_PositiveMethodsContribute ==
    (Returned("ensemble_forecast") /\ svc.arg.data # << >>) =>
        LET members == svc.ret.members
            n == Len(svc.arg.data)
            output(m) == method_forecast(svc.arg.this, m, svc.arg.data)
        IN  /\ \A m \in {"exp", "wma", "lr", "poly"} :
                  (\E i \in DOMAIN members : members[i].method = m)
                      <=> /\ output(m) > 0
                          /\ m = "lr" => n >= 3
                          /\ m = "poly" => n >= 5
            /\ \A i, j \in DOMAIN members :
                  members[i].method = members[j].method => i = j
            /\ \A i \in DOMAIN members :
                  members[i].forecast = output(members[i].method)
            /\ Len(svc.ret.normalized_weights) = Len(members)

\* a series of 5 points or more of which one method made 0 and another a
\* positive forecast
C15_Witness ==
    /\ Returned("ensemble_forecast")
    /\ Len(svc.arg.data) >= 5
    /\ svc.ret.members # << >>
    /\ \E m \in {"exp", "wma", "lr", "poly"} :
          method_forecast(svc.arg.this, m, svc.arg.data) = 0

\* C16: whenever at least one method contributes, the weights used are the
\* base weights 0.30, 0.25, 0.25, 0.20 of the contributing methods divided
\* by their sum, so that they sum to 1; the ensemble returns 0 exactly when
\* no method contributes.
C16_WeightsSumToOne ==
    Returned("ensemble_forecast") =>
        LET members == svc.ret.members
            used == svc.ret.normalized_weights
            total == SumSeq([i \in DOMAIN members |->
                               EnsembleWeights[members[i].method]])
        IN  /\ members # << >> =>
                  /\ \A i \in DOMAIN used :
                        used[i][1] * total
                            = EnsembleWeights[members[i].method] * used[i][2]
                  /\ \A i \in DOMAIN used : used[i][2] = used[1][2]
                  /\ SumSeq([i \in DOMAIN used |-> used[i][1]]) = used[1][2]
            /\ svc.ret.result = 0 <=> members = << >>

\* some methods contributed and others did not
C16_Witness ==
    /\ Returned("ensemble_forecast")
    /\ Len(svc.ret.members) \in 1..3
    /\ Len(svc.arg.data) >= 5
    /\ svc.ret.result > 0

\* C17: the outlier filter returns as many values as it is given; it
\* returns its input when detection is disabled or there are fewer than 4
\* values; with 4 values or more, a value inside
\* [Q1 - 1.5 IQR, Q3 + 1.5 IQR] is kept in its place and a value outside is
\* replaced by the median of the input.
C17_OutliersReplaced ==
    Returned("_remove_outliers") =>
        LET data == float_values(svc.arg.data) IN
        /\ Len(svc.ret) = Len(data)
        /\ (~svc.arg.this.outlier_detection \/ Len(data) < 4) => svc.ret = data
        /\ (svc.arg.this.outlier_detection /\ Len(data) >= 4) =>
              \A i \in DOMAIN data :
                  svc.ret[i] = IF within_bounds(data, data[i]) THEN data[i]
                               ELSE np_median(data)

\* the filter replaced a value
C17_Witness ==
    /\ Returned("_remove_outliers")
    /\ \E i \in DOMAIN svc.ret : svc.ret[i] # float_values(svc.arg.data)[i]

\* C18: for an empty series each of the four methods, ensemble_forecast and
\* generate_daily_forecast return 0; linear regression returns 0 for fewer
\* than 2 points, polynomial regression for fewer than degree + 1 points;
\* exponential smoothing of one point returns the value of that point.
C18_InsufficientInputGivesZero ==
    LET n == Len(svc.arg.data) IN
    /\ ((svc.call \in ForecastMethods \cup {"generate_daily_forecast"})
            /\ n = 0) => svc.ret = 0
    /\ (Returned("ensemble_forecast") /\ n = 0) => svc.ret.result = 0
    /\ (Returned("linear_regression_forecast") /\ n < 2) => svc.ret = 0
    /\ (Returned("polynomial_regression_forecast")
            /\ n < svc.arg.this.polynomial_degree + 1) => svc.ret = 0
    /\ (Returned("exponential_smoothing_forecast") /\ n = 1) =>
          svc.ret = svc.arg.data[1][2]

\* linear regression was given one point, of a value that is not 0
C18_Witness ==
    /\ Returned("linear_regression_forecast")
    /\ Len(svc.arg.data) = 1
    /\ svc.arg.data[1][2] > 0
    /\ svc.ret = 0

\* whether a string is a time of day HH:MM
ValidRunTime(str) ==
    LET parts == split(str, ":") IN
    /\ Len(parts) = 2
    /\ is_int(parts[1]) /\ is_int(parts[2])
    /\ int(parts[1]) \in 0..23
    /\ int(parts[2]) \in 0..59

\* C19: for every configured run time that is no valid HH:MM time of day,
\* start() schedules the job at 00:00, returns without raising and leaves a
\* started scheduler.
C19_FallsBackToMidnight ==
    (/\ Returned("start")
     /\ svc.arg.data.scheduler_enabled
     /\ ~ValidRunTime(svc.arg.data.scheduler_run_time)) =>
        /\ svc.ret.raises = "none"
        /\ svc.ret.scheduler = "started"
        /\ svc.ret.job = <<0, 0>>

\* C20: the forecast stored for day 1 ahead is the daily forecast of the
\* historical series; the forecast stored for day N ahead, N in 2..7, is
\* the daily forecast of the historical series extended with the points
\* (today + k, F_k), k in 1..N-1, F_k being the forecast stored for day k;
\* the historical series itself is left as it was.
C20_ProgressiveForecast ==
    Returned("_generate_daily_forecast") =>
        LET historical_data == svc.arg.data
            day == Max({historical_data[i][1] : i \in DOMAIN historical_data})
            added == svc.ret.added
            extended(N) ==
                historical_data
                    \o [k \in 1..(N - 1) |-> <<day + k, added[k].forecast_value>>]
        IN  /\ Len(added) = ForecastDays
            /\ \A N \in 1..ForecastDays :
                  /\ added[N].forecast_date = day + N
                  /\ added[N].forecast_value
                        = generate_daily_forecast(svc.arg.this, extended(N))
            /\ svc.ret.historical_data = historical_data

\* the forecast for day 2 differs from the forecast of the historical
\* series alone
C20_Witness ==
    /\ Returned("_generate_daily_forecast")
    /\ svc.ret.added[1].forecast_value > 0
    /\ svc.ret.added[2].forecast_value
          # generate_daily_forecast(svc.arg.this, svc.arg.data)

(***************************************************************************)
(* Properties of the running flag, of the guard and of the aggregates.     *)
(***************************************************************************)
\* C24: for each processor, is_running implies that a run of this processor
\* holds the guard and is between line 86 and line 127; the flag is False
\* when no run holds the guard and when a run comes to the release, whatever
\* way it took, and a trigger that is skipped leaves every flag as it was.
C24_RunningMeansGuardHeld ==
    /\ [](\A i \in Instances :
            is_running[i] =>
                \E t \in Threads :
                    /\ batch_lock = t
                    /\ self[t] = i
                    /\ pc[t] \in Holding \ {"set_running", "release"})
    /\ [](\A t \in Threads : pc[t] = "release" => ~is_running[self[t]])
    /\ [][\A t \in Threads :
            (pc[t] = "acquire" /\ batch_lock # 0 /\ pc'[t] # "acquire") =>
                is_running' = is_running]_vars

\* the flag of a processor is up while its run handles an exception, and
\* another trigger of the same processor is about to be skipped
C24_Witness ==
    \E t, u \in Threads :
        /\ t # u
        /\ self[t] = 2
        /\ self[u] = 2
        /\ is_running[2]
        /\ ~is_running[1]
        /\ pc[t] = "except"
        /\ pc[u] = "acquire"

\* C25: a run that comes to the release holds the guard; the guard goes from
\* held to free only in the release of the run that holds it, which then
\* returns, and a skipped trigger returns with the guard as it was.
C25_ReleasedByHolderOnly ==
    /\ [](\A t \in Threads : pc[t] = "release" => batch_lock = t)
    /\ [][(batch_lock # 0 /\ batch_lock' # batch_lock) =>
            /\ batch_lock' = 0
            /\ pc[batch_lock] = "release"
            /\ pc'[batch_lock] = "idle"]_vars
    /\ [][\A t \in Threads :
            (pc[t] = "acquire" /\ batch_lock # 0 /\ pc'[t] # "acquire") =>
                /\ batch_lock' = batch_lock
                /\ pc'[t] = "idle"]_vars

\* a run that committed is about to release the guard while a trigger of the
\* same processor is at the acquire
C25_Witness ==
    \E t, u \in Threads :
        /\ t # u
        /\ self[u] = self[t]
        /\ batch_lock = t
        /\ pc[t] = "release"
        /\ exc[t] = "none"
        /\ Happened(t, "commit")
        /\ pc[u] = "acquire"

\* the committed hourly rows of date d
HourlyRows(d) == SelectSeq(db.hourly_order_cache, LAMBDA r : r.date = d)

\* C26: when a run has committed and the order records of its date were the
\* same at its daily query and at its hourly query, the counts of the 24
\* hourly rows of the date add up to the order count of the daily row of the
\* date, and the average of that row is 0 when the count is 0 and else
\* total / count to the cent.
C26_HourlySumIsDailyCount ==
    \A t \in Threads :
        (/\ Committed(t)
         /\ locals[t].orders_summed
                = OnDate(locals[t].orders_read, locals[t].yesterday)) =>
            \E i \in ExistingDaily(db, locals[t].yesterday) :
                LET daily == db.daily_revenue_cache[i]
                    hourly == HourlyRows(locals[t].yesterday)
                IN  /\ Len(hourly) = HoursPerDay
                    /\ SumSeq([k \in DOMAIN hourly |-> hourly[k].order_count])
                           = daily.order_count
                    /\ daily.order_count = 0 => daily.average_order_value = 0
                    /\ daily.order_count > 0 =>
                           Abs((2 * daily.order_count * daily.average_order_value)
                                   - (2 * daily.total_revenue))
                               <= daily.order_count

\* a run has committed a date with two served orders, whose average is no
\* whole number of cents, after an earlier run had committed the date with
\* one served order
C26_Witness ==
    \E t \in Threads :
        /\ Committed(t)
        /\ locals[t].orders_summed
               = OnDate(locals[t].orders_read, locals[t].yesterday)
        /\ locals[t].entry.order_count = 2
        /\ locals[t].entry.total_revenue % 2 = 1
        /\ \E i \in ExistingDaily(before[t], locals[t].yesterday) :
              before[t].daily_revenue_cache[i].order_count = 1

\* the forecast rows the committed run of t added to the store
ForecastsAdded(t) ==
    SubSeq(db.forecast_history, Len(before[t].forecast_history) + 1,
           Len(db.forecast_history))

\* how many of rows are the forecast of the given type for date d
Forecasts(rows, type, d) ==
    Cardinality({k \in DOMAIN rows : rows[k] = ForecastHistory(type, d)})

\* C22: a run that has committed has added 7 + 24 forecast rows: one
\* 'daily_revenue' row for each of the 7 dates after the day of its daily
\* forecast step, and one row of each type hourly_00..hourly_23 for the date
\* after the day of its hourly forecast step; so on an empty store as well.
C22_CommitHasAllForecasts ==
    \A t \in Threads :
        Committed(t) =>
            /\ Len(ForecastsAdded(t)) = ForecastDays + HoursPerDay
            /\ \E day \in 1..MaxDay :
                  \A days_ahead \in 1..ForecastDays :
                      Forecasts(ForecastsAdded(t), "daily_revenue",
                                day + days_ahead) = 1
            /\ \E day \in 1..MaxDay :
                  \A hour \in Hours :
                      Forecasts(ForecastsAdded(t), HourlyType(hour), day + 1) = 1

(***************************************************************************)
(* The configuration switch of linear regression.                          *)
(***************************************************************************)
\* C23: when enable_linear_regression is False, linear regression is not
\* among the methods whose forecast and weight ensemble_forecast combines,
\* whatever the length of the series.
C23_LinearRegressionFlagHonoured ==
    (Returned("ensemble_forecast") /\ ~svc.arg.this.enable_linear_regression) =>
        \A k \in DOMAIN svc.ret.members : svc.ret.members[k].method # "lr"

(***************************************************************************)
(* Properties of start() and stop().                                       *)
(***************************************************************************)
\* a step that is a call of start() or of stop()
CallOf(name) ==
    scheduler'.calls # scheduler.calls /\ scheduler'.last.call = name

\* the schedulers that exist: the one self.scheduler refers to and the ones
\* that fire their jobs
Schedulers == Running \cup ({scheduler.ref} \ {0})

\* C21: a call of stop() leaves every run, the guard and the stores as they
\* are; a run that comes to its end while self.scheduler is None after a
\* stop() has committed or has been through rollback; the guard a run holds
\* is released in the end; and a run starts only while self.scheduler is a
\* running scheduler, so none between the return of stop() and the next
\* start().
C21_StoppedRunCompletes ==
    /\ [][CallOf("stop") => UNCHANGED <<svc, batch_vars>>]_vars
    /\ [](\A t \in Threads :
            (scheduler.ref = 0 /\ pc[t] = "release") =>
                \/ Happened(t, "commit")
                \/ Happened(t, "rollback")
                \/ exc[t] = "rollback")
    /\ \A t \in Threads :
          (scheduler.ref = 0 /\ batch_lock = t) ~> (batch_lock = 0)
    /\ [][\A t \in Threads :
            (pc[t] = "idle" /\ pc'[t] # "idle") =>
                /\ scheduler.ref # 0
                /\ scheduler.ref \in Running]_vars

\* C21, the part that holds: the same, for the end of a run that has opened
\* its sessions and is in its pipeline when self.scheduler is None.
C21_StopLeavesRunAlone ==
    /\ [][CallOf("stop") => UNCHANGED <<svc, batch_vars>>]_vars
    /\ [][\A t \in Threads :
            (pc[t] = "idle" /\ pc'[t] # "idle") =>
                /\ scheduler.ref # 0
                /\ scheduler.ref \in Running]_vars
    /\ \A t \in Threads :
          (scheduler.ref = 0 /\ pc[t] \in Range(PipelineSteps))
              ~> (pc[t] = "close" /\ (Happened(t, "commit") \/ exc[t] # "none"))
    /\ \A t \in Threads :
          (scheduler.ref = 0 /\ batch_lock = t) ~> (batch_lock = 0)

\* C27: there is at most one scheduler and at most one job in all, the job
\* 'midnight_batch'; start() with self.scheduler set or with the scheduler
\* disabled, and stop() with self.scheduler None, leave self.scheduler and
\* every scheduler as they are; start() with the scheduler enabled that
\* follows a stop() leaves self.scheduler a scheduler that did not exist
\* before, the only one.
C27_OneSchedulerOneJob ==
    /\ [](/\ Cardinality(Schedulers) <= 1
          /\ \A k \in Schedulers :
                /\ Len(scheduler.made[k].jobs) <= 1
                /\ \A j \in DOMAIN scheduler.made[k].jobs :
                      scheduler.made[k].jobs[j].id = "midnight_batch")
    /\ [][(/\ CallOf("start")
           /\ scheduler.ref # 0 \/ ~svc.arg.data.scheduler_enabled) =>
              UNCHANGED <<scheduler.ref, scheduler.made>>]_vars
    /\ [][(CallOf("stop") /\ scheduler.ref = 0) =>
              UNCHANGED <<scheduler.ref, scheduler.made>>]_vars
    /\ [][(/\ CallOf("start")
           /\ scheduler.last.call = "stop"
           /\ svc.arg.data.scheduler_enabled) =>
              /\ scheduler'.ref \notin DOMAIN scheduler.made
              /\ Schedulers' = {scheduler'.ref}]_vars

====
